---- MODULE Spec2Model ----
(***************************************************************************)
(* Model of the food-level estimator of feeder_status.py:                  *)
(* calculate_food_status with the state file food_level_state.json, the    *)
(* manual reset (--reset-food-level) and the forced recalculation          *)
(* (--force-recalc).  Grams, portions and timestamps are integers; the     *)
(* percentage is kept in tenths of a percent (the report rounds to 0.1).   *)
(***************************************************************************)
EXTENDS Integers, Sequences, FiniteSets, TLC

\* ------------------------------------------------------------------------
\* Program constants
\* ------------------------------------------------------------------------
DEFAULT_FULL_SENSOR_THRESHOLD == 25000
FOOD_LOW_OVERRIDE_GRAMS == 80
FOOD_LOW_LOOKBACK_DAYS == 4
DaySeconds == 86400
portion_weight == 15
DefaultCapacity == 2770
refill_threshold_sensor1 == DEFAULT_FULL_SENSOR_THRESHOLD
refill_threshold_sensor2 == DEFAULT_FULL_SENSOR_THRESHOLD

\* Python's None / an absent dictionary key (readings and amounts are >= 0)
None == -1
\* a created_at string that strptime rejects
BadDate == -2

\* ------------------------------------------------------------------------
\* Bounds of the model
\* ------------------------------------------------------------------------
MaxEvents == 3
\* messages of a history of sensor readings
MaxReadings == 4

\* line 403: the window of the daily consumption
SevenDays == 7 * DaySeconds

\* line 434: days_of_food_left when no rate is known, in tenths of a day
UnboundedDays == 9990

LookbackSeconds == FOOD_LOW_LOOKBACK_DAYS * DaySeconds

\* feeder_capacity values of config.yaml the runs are tried with: none, a
\* reservoir smaller than the override baseline, the default
Capacities == {0, 20, DefaultCapacity}

Max(a, b) == IF a >= b THEN a ELSE b
Min(a, b) == IF a <= b THEN a ELSE b

\* ------------------------------------------------------------------------
\* Raw records of the vendor history (payload already decoded: an absent
\* key is None)
\* ------------------------------------------------------------------------
Payloads ==
  { [message_type |-> "FEED_DONE", amount |-> 2, s1 |-> 3000, s2 |-> 2000,
     is_food_low |-> TRUE, dated |-> TRUE],
    [message_type |-> "FEED_DONE", amount |-> 1, s1 |-> 26000, s2 |-> 26000,
     is_food_low |-> FALSE, dated |-> TRUE],
    [message_type |-> "FEED_START", amount |-> 1, s1 |-> None, s2 |-> None,
     is_food_low |-> FALSE, dated |-> TRUE],
    [message_type |-> "FEED_DONE", amount |-> 1, s1 |-> None, s2 |-> None,
     is_food_low |-> FALSE, dated |-> FALSE] }

RawRecord(p, n, t) ==
  [id |-> n, created_at |-> IF p.dated THEN t ELSE BadDate,
   message_type |-> p.message_type, amount |-> p.amount,
   s1 |-> p.s1, s2 |-> p.s2, is_food_low |-> p.is_food_low]

default_state == [remaining_grams |-> -1, last_processed_ts |-> 0, last_refill_ts |-> 0]

\* no estimation run in flight
NoRun == [active |-> FALSE]

VARIABLES
  food_state,   \* contents of food_level_state.json as load_food_state returns them
  history,      \* the records the vendor holds for the feeder, oldest first
  now,          \* time.time()
  run,          \* the estimation run in flight: its inputs, its loop trace, its report
  applied,      \* ids of the records whose dispense was subtracted by some run
  reapplied,    \* ids of the records whose dispense was subtracted more than once
  last_api_call, \* the time written in last_api_call.log, None without the file
  raw_history   \* contents of raw_feed_messages.json, the cached history

vars == <<food_state, history, now, run, applied, reapplied, last_api_call, raw_history>>

\* lines 47 and 50: the files only the main block touches
files == <<last_api_call, raw_history>>

\* ------------------------------------------------------------------------
\* calculate_food_status
\* ------------------------------------------------------------------------
\* the test that lets a record through whose created_at does not parse
IsValidUnparsed(msg) == msg.created_at # None /\ msg.message_type # "MISSING"

\* lines 243-251: keep the records that have created_at and message_type and
\* whose created_at parses; the parsed time becomes msg['timestamp']
IsValid(msg) == msg.created_at # None /\ msg.message_type # "MISSING" /\ msg.created_at # BadDate

RECURSIVE Normalize(_)
Normalize(msgs) ==
  IF msgs = <<>> THEN <<>>
  ELSE LET m == Head(msgs) IN
       IF IsValid(m)
       THEN <<[id |-> m.id, timestamp |-> m.created_at, message_type |-> m.message_type,
               amount |-> m.amount, s1 |-> m.s1, s2 |-> m.s2,
               is_food_low |-> m.is_food_low]>> \o Normalize(Tail(msgs))
       ELSE Normalize(Tail(msgs))

\* line 258: list.sort(key=timestamp) is a stable sort, oldest first
RECURSIVE InsertByTimestamp(_, _)
InsertByTimestamp(sorted, m) ==
  IF sorted = <<>> THEN <<m>>
  ELSE LET n == Len(sorted) IN
       IF sorted[n].timestamp <= m.timestamp THEN Append(sorted, m)
       ELSE Append(InsertByTimestamp(SubSeq(sorted, 1, n - 1), m), sorted[n])

RECURSIVE SortByTimestamp(_)
SortByTimestamp(msgs) ==
  IF msgs = <<>> THEN <<>>
  ELSE LET n == Len(msgs) IN InsertByTimestamp(SortByTimestamp(SubSeq(msgs, 1, n - 1)), msgs[n])

\* lines 266-278: the sensor pair of the newest message at or before
\* last_processed_ts (the loop breaks at the first such message)
RECURSIVE FindPrevSensors(_, _, _)
FindPrevSensors(valid, i, last_processed_ts) ==
  IF i = 0 THEN [s1 |-> None, s2 |-> None]
  ELSE IF valid[i].timestamp <= last_processed_ts
       THEN [s1 |-> valid[i].s1, s2 |-> valid[i].s2]
       ELSE FindPrevSensors(valid, i - 1, last_processed_ts)

\* lines 302-308: the refill test
RefillTest(p1, p2, c1, c2) ==
  /\ p1 # None /\ p2 # None /\ c1 # None /\ c2 # None
  /\ 10 * p1 < 7 * refill_threshold_sensor1
  /\ 10 * p2 < 7 * refill_threshold_sensor2
  /\ c1 > refill_threshold_sensor1
  /\ c2 > refill_threshold_sensor2

\* lines 323-325: the numeric amount of a payload, 0.0 otherwise
AmountOf(msg) == IF msg.amount # None THEN msg.amount ELSE 0

\* the skip test with the boundary message let through
SkippedStrict(unknown, msg_ts, last_processed_ts) == ~unknown /\ msg_ts < last_processed_ts

\* line 286: messages at or before last_processed_ts are skipped once the
\* state is known
Skipped(unknown, msg_ts, last_processed_ts) == ~unknown /\ msg_ts <= last_processed_ts

\* the bootstrap that takes the reservoir for empty
EstablishInitialEmpty(unknown, remaining_grams, cap) == IF unknown THEN 0 ELSE remaining_grams

\* lines 317-319: a state still unknown is taken for a full reservoir
EstablishInitial(unknown, remaining_grams, cap) == IF unknown THEN cap ELSE remaining_grams

\* lines 285-331: one iteration of the chronological loop
LoopBody(acc, msg, last_processed_ts, cap) ==
  IF Skipped(acc.unknown, msg.timestamp, last_processed_ts) THEN acc
  ELSE
    LET refill == RefillTest(acc.prev1, acc.prev2, msg.s1, msg.s2)
        rem1 == IF refill THEN cap ELSE acc.rem
        unk1 == IF refill THEN FALSE ELSE acc.unknown
        rem2 == EstablishInitial(unk1, rem1, cap)
        fed == msg.message_type = "FEED_DONE" /\ AmountOf(msg) > 0
        rem3 == IF fed THEN rem2 - AmountOf(msg) * portion_weight ELSE rem2
    IN [rem |-> rem3,
        unknown |-> FALSE,
        prev1 |-> IF msg.s1 # None THEN msg.s1 ELSE acc.prev1,
        prev2 |-> IF msg.s2 # None THEN msg.s2 ELSE acc.prev2,
        refill_detected_ts |-> IF refill THEN msg.timestamp ELSE acc.refill_detected_ts,
        latest |-> msg.timestamp,
        trace |-> Append(acc.trace,
                    [id |-> msg.id, timestamp |-> msg.timestamp, refill |-> refill,
                     before |-> acc.rem, level |-> rem2, after |-> rem3, fed |-> fed,
                     prev1 |-> acc.prev1, prev2 |-> acc.prev2])]

RECURSIVE Walk(_, _, _, _, _)
Walk(valid, i, acc, last_processed_ts, cap) ==
  IF i > Len(valid) THEN acc
  ELSE Walk(valid, i + 1, LoopBody(acc, valid[i], last_processed_ts, cap), last_processed_ts, cap)

\* the search that looks at the messages of any age
InLookbackAnyAge(msg_ts, now_ts) == TRUE

\* line 356: a message older than the lookback cutoff is passed over
InLookback(msg_ts, now_ts) == ~(msg_ts < now_ts - LookbackSeconds)

\* lines 355-374: time of the first is_food_low message inside the lookback
\* window, or now
RECURSIVE FirstLowAlert(_, _, _)
FirstLowAlert(valid, i, now_ts) ==
  IF i > Len(valid) THEN now_ts
  ELSE IF InLookback(valid[i].timestamp, now_ts) /\ valid[i].is_food_low
       THEN (IF valid[i].timestamp = 0 THEN now_ts ELSE valid[i].timestamp)
       ELSE FirstLowAlert(valid, i + 1, now_ts)

\* the comparison that also counts the dispense of the alert message
AtOrAfterAlert(msg_ts, first_low_alert_ts) == msg_ts >= first_low_alert_ts

\* line 379: only the messages after the alert count
AfterAlert(msg_ts, first_low_alert_ts) == msg_ts > first_low_alert_ts

\* lines 377-387: grams dispensed after the alert
RECURSIVE ConsumedSince(_, _, _)
ConsumedSince(valid, i, alert_ts) ==
  IF i > Len(valid) THEN 0
  ELSE (IF AfterAlert(valid[i].timestamp, alert_ts) /\ valid[i].message_type = "FEED_DONE"
        THEN AmountOf(valid[i]) * portion_weight ELSE 0)
       + ConsumedSince(valid, i + 1, alert_ts)

\* line 391
OverrideRemaining(valid, now_ts) ==
  Max(0, FOOD_LOW_OVERRIDE_GRAMS - ConsumedSince(valid, 1, FirstLowAlert(valid, 1, now_ts)))

\* the percentage without the upper clamp
PercentUnclamped(final_remaining_grams, cap) ==
  LET percent == IF cap > 0 THEN (2000 * final_remaining_grams + cap) \div (2 * cap) ELSE 0
  IN Max(0, percent)

\* lines 427-428 and 431: percentage, clamped to [0, 100], in tenths
PercentRemaining(final_remaining_grams, cap) ==
  LET percent == IF cap > 0 THEN (2000 * final_remaining_grams + cap) \div (2 * cap) ELSE 0
  IN Max(0, Min(1000, percent))

\* the save that takes the reported value
SavedRemainingReported(remaining_grams_calculated, final_remaining_grams) == final_remaining_grams

\* line 400: what the run hands to save_food_state
SavedRemaining(remaining_grams_calculated, final_remaining_grams) == remaining_grams_calculated

\* lines 253-256: the run that finds no valid message
NoValidResult(st, now_ts) ==
  [save |-> [remaining_grams |-> 0, last_processed_ts |-> now_ts,
             last_refill_ts |-> st.last_refill_ts],
   trace |-> <<>>, calculated |-> 0,
   report |-> [percent_tenths |-> 0, remaining_grams |-> 0,
               days_of_food_left_tenths |-> 0, daily_consumption_tenths |-> 0,
               last_refill_ts |-> st.last_refill_ts, override_applied |-> FALSE]]

\* the unknown test that also takes an empty reservoir for unknown
InitialStateWasUnknownOrEmpty(remaining_grams) == remaining_grams <= 0

\* line 264
InitialStateWasUnknown(remaining_grams) == remaining_grams < 0

\* the persisted time stamp taken from the oldest message of the batch
LatestProcessedOldest(valid, acc) ==
  IF acc.rem < 0 THEN valid[1].timestamp ELSE acc.latest

\* lines 331 and 338-341: the time stamp the run persists
LatestProcessed(valid, acc) ==
  IF acc.rem < 0 THEN valid[Len(valid)].timestamp ELSE acc.latest

\* the refill time that forgets the one loaded
FinalRefillTsDetectedOnly(refill_detected_ts, last_known_refill_ts) == refill_detected_ts

\* line 335: the refill time of this run, or else the one loaded
FinalRefillTs(refill_detected_ts, last_known_refill_ts) ==
  IF refill_detected_ts > 0 THEN refill_detected_ts ELSE last_known_refill_ts

\* lines 243-258: the valid messages, oldest first
PrepareMessages(feed_messages) == SortByTimestamp(Normalize(feed_messages))

\* the clamp that only replaces the unknown mark
ClampUnknownOnly(remaining_grams) == IF remaining_grams = -1 THEN 0 ELSE remaining_grams

\* lines 338-343: a total still below 0 is reported empty, and the value
\* calculated is never below 0
ClampRemaining(remaining_grams) ==
  Max(0, IF remaining_grams < 0 THEN 0 ELSE remaining_grams)

\* lines 260-343: the accumulation pass and the tuple it hands to the save
Accumulate(valid, cap, st) ==
  LET unknown0 == InitialStateWasUnknown(st.remaining_grams)
      seed == IF unknown0 THEN [s1 |-> None, s2 |-> None]
              ELSE FindPrevSensors(valid, Len(valid), st.last_processed_ts)
      acc0 == [rem |-> st.remaining_grams, unknown |-> unknown0,
               prev1 |-> seed.s1, prev2 |-> seed.s2, refill_detected_ts |-> 0,
               latest |-> st.last_processed_ts, trace |-> <<>>]
      acc == Walk(valid, 1, acc0, st.last_processed_ts, cap)
  IN [remaining_grams_calculated |-> ClampRemaining(acc.rem),
      latest_message_ts_processed |-> LatestProcessed(valid, acc),
      final_refill_ts |-> FinalRefillTs(acc.refill_detected_ts, st.last_refill_ts),
      trace |-> acc.trace]

\* the override that never reports more than the running total
FinalRemainingCapped(current_is_food_low, remaining_grams_calculated, valid, now_ts) ==
  IF current_is_food_low
  THEN Min(remaining_grams_calculated, OverrideRemaining(valid, now_ts))
  ELSE remaining_grams_calculated

\* lines 346-348 and 391: the value the report is made of
FinalRemaining(current_is_food_low, remaining_grams_calculated, valid, now_ts) ==
  IF current_is_food_low THEN OverrideRemaining(valid, now_ts)
  ELSE remaining_grams_calculated

\* line 400: the tuple handed to save_food_state
SavedState(a, final_remaining_grams) ==
  [remaining_grams |-> SavedRemaining(a.remaining_grams_calculated, final_remaining_grams),
   last_processed_ts |-> a.latest_message_ts_processed,
   last_refill_ts |-> a.final_refill_ts]

\* n / d rounded to the nearest integer, for n >= 0 and d > 0; round() takes
\* a value halfway between two integers to the even one
Round(n, d) ==
  LET q == n \div d
      r == n % d
  IN IF 2 * r < d THEN q
     ELSE IF 2 * r > d THEN q + 1
     ELSE IF q % 2 = 0 THEN q ELSE q + 1

\* lines 403-404: FEED_DONE messages of the trailing seven days
RecentFeeds(valid, now_ts) ==
  {k \in 1..Len(valid) : /\ valid[k].timestamp > now_ts - SevenDays
                          /\ valid[k].message_type = "FEED_DONE"}

\* lines 405-415: grams dispensed by the recent feeds (a payload without a
\* numeric amount counts 0)
RECURSIVE GramsOf(_, _)
GramsOf(valid, feeds) ==
  IF feeds = {} THEN 0
  ELSE LET k == CHOOSE x \in feeds : TRUE
       IN AmountOf(valid[k]) * portion_weight + GramsOf(valid, feeds \ {k})

\* lines 416-420: the span the grams are averaged over, in seconds: the age
\* of the oldest recent feed, at least one day and at most seven
SecondsAnalyzed(valid, feeds, now_ts) ==
  IF feeds = {} THEN SevenDays
  ELSE LET first_feed_ts == valid[CHOOSE k \in feeds :
                                    \A j \in feeds : valid[k].timestamp <= valid[j].timestamp].timestamp
       IN Min(SevenDays, Max(DaySeconds, now_ts - first_feed_ts))

\* a report that divides by the rate whatever it is (0 days when it cannot)
DaysOfFoodLeftNoSentinel(final_remaining_grams, total_grams, seconds_analyzed) ==
  IF total_grams > 0
  THEN Round(final_remaining_grams * seconds_analyzed, total_grams * (DaySeconds \div 9))
  ELSE 0

\* lines 421, 425-426 and 434: daily_consumption is total_grams per day
\* analyzed; days_of_food_left is (final_remaining_grams / daily_consumption)
\* * 0.9 rounded to one decimal, or 999 when the rate is not positive. In
\* tenths of a day that is final * 9 * seconds / (total * 86400), the 9
\* cancelled against 86400
DaysOfFoodLeft(final_remaining_grams, total_grams, seconds_analyzed) ==
  IF total_grams > 0
  THEN Round(final_remaining_grams * seconds_analyzed, total_grams * (DaySeconds \div 9))
  ELSE UnboundedDays

\* lines 421 and 435: daily_consumption rounded to one decimal, in tenths
DailyConsumption(total_grams, seconds_analyzed) ==
  IF total_grams > 0 THEN Round(total_grams * DaySeconds * 10, seconds_analyzed) ELSE 0

\* lines 402-437: the returned status
StatusReport(final_remaining_grams, cap, final_refill_ts, override_applied, valid, now_ts) ==
  LET feeds == RecentFeeds(valid, now_ts)
      total_grams == GramsOf(valid, feeds)
      seconds_analyzed == SecondsAnalyzed(valid, feeds, now_ts)
  IN [percent_tenths |-> PercentRemaining(final_remaining_grams, cap),
      remaining_grams |-> final_remaining_grams,
      days_of_food_left_tenths |->
         DaysOfFoodLeft(final_remaining_grams, total_grams, seconds_analyzed),
      daily_consumption_tenths |-> DailyConsumption(total_grams, seconds_analyzed),
      last_refill_ts |-> final_refill_ts,
      override_applied |-> override_applied]

\* lines 236-437
CalculateFoodStatus(feed_messages, cap, current_is_food_low, st, now_ts) ==
  LET valid == PrepareMessages(feed_messages) IN
  IF valid = <<>> THEN NoValidResult(st, now_ts)
  ELSE
    LET a == Accumulate(valid, cap, st)
        final_remaining_grams ==
          FinalRemaining(current_is_food_low, a.remaining_grams_calculated, valid, now_ts)
    IN [save |-> SavedState(a, final_remaining_grams),
        trace |-> a.trace, calculated |-> a.remaining_grams_calculated,
        report |-> StatusReport(final_remaining_grams, cap, a.final_refill_ts,
                                current_is_food_low, valid, now_ts)]

\* ------------------------------------------------------------------------
\* The state machine
\* ------------------------------------------------------------------------
Reverse(s) == [i \in 1..Len(s) |-> s[Len(s) + 1 - i]]

\* the ids whose dispense a run subtracted
FedIds(trace) == {trace[i].id : i \in {j \in 1..Len(trace) : trace[j].fed}}

Init ==
  /\ food_state = default_state
  /\ history = <<>>
  /\ now = 1
  /\ run = NoRun
  /\ applied = {}
  /\ reapplied = {}
  /\ last_api_call = None
  /\ raw_history = <<>>

\* the feeder reports a message one second later; the vendor stamps it with
\* the time it arrives
DeviceEvent ==
  /\ ~run.active
  /\ Len(history) < MaxEvents
  /\ \E p \in Payloads :
       history' = Append(history, RawRecord(p, Len(history) + 1, now + 1))
  /\ now' = now + 1
  /\ UNCHANGED <<files, food_state, run, applied, reapplied>>

\* the event lists a run may be handed: the cached or fetched part of the
\* history (a prefix or a suffix of it), oldest or newest first
Batches(h) ==
  {SubSeq(h, 1, j) : j \in 0..Len(h)} \cup {SubSeq(h, i, Len(h)) : i \in 1..Len(h)}
  \cup {Reverse(h)}

\* what a call of calculate_food_status leaves behind
RunRecord(feed_messages, cap, low, r) ==
  [active |-> TRUE, pre |-> food_state, feed_messages |-> feed_messages,
   valid |-> PrepareMessages(feed_messages),
   cap |-> cap, low |-> low, trace |-> r.trace, calculated |-> r.calculated,
   report |-> r.report]

\* one call of calculate_food_status (line 591)
Estimate ==
  /\ ~run.active
  /\ \E feed_messages \in Batches(history), cap \in Capacities, low \in BOOLEAN :
       \E r \in {CalculateFoodStatus(feed_messages, cap, low, food_state, now)} :
          /\ food_state' = r.save
          /\ run' = RunRecord(feed_messages, cap, low, r)
  /\ UNCHANGED <<files, history, now, applied, reapplied>>

\* the same call, recording which dispenses it subtracted
EstimateTracked ==
  /\ ~run.active
  /\ \E feed_messages \in Batches(history), cap \in Capacities, low \in BOOLEAN :
       \E r \in {CalculateFoodStatus(feed_messages, cap, low, food_state, now)} :
          /\ food_state' = r.save
          /\ run' = RunRecord(feed_messages, cap, low, r)
          /\ applied' = applied \cup FedIds(r.trace)
          /\ reapplied' = reapplied \cup (applied \cap FedIds(r.trace))
  /\ UNCHANGED <<files, history, now>>

\* lines 593-613: the report is printed and the process ends
Display ==
  /\ run.active
  /\ run' = NoRun
  /\ UNCHANGED <<files, food_state, history, now, applied, reapplied>>

\* a reset that leaves last_refill_ts at its default
ResetStateNoRefill(feeder_capacity, current_time_ts) ==
  [remaining_grams |-> feeder_capacity, last_processed_ts |-> current_time_ts,
   last_refill_ts |-> 0]

\* a reset that leaves last_processed_ts at its default
ResetStateUnprocessed(feeder_capacity, current_time_ts) ==
  [remaining_grams |-> feeder_capacity, last_processed_ts |-> 0,
   last_refill_ts |-> current_time_ts]

\* line 474: the tuple a manual reset saves
ResetState(feeder_capacity, current_time_ts) ==
  [remaining_grams |-> feeder_capacity, last_processed_ts |-> current_time_ts,
   last_refill_ts |-> current_time_ts]

\* lines 469-480: --reset-food-level
ManualReset ==
  /\ ~run.active
  /\ \E cap \in Capacities : food_state' = ResetState(cap, now)
  /\ UNCHANGED <<files, history, now, run, applied, reapplied>>

\* lines 485-489: --force-recalc removes the state file
ForceRecalc ==
  /\ ~run.active
  /\ food_state # default_state
  /\ food_state' = default_state
  /\ UNCHANGED <<files, history, now, run, applied, reapplied>>

Next == DeviceEvent \/ Estimate \/ Display \/ ManualReset \/ ForceRecalc

Spec == Init /\ [][Next]_vars

\* the runs of a deployment that never removes the state file
NextKept == DeviceEvent \/ EstimateTracked \/ Display \/ ManualReset

SpecKept == Init /\ [][NextKept]_vars

\* ------------------------------------------------------------------------
\* calculate_food_status statement by statement: run.pc is the statement the
\* call is at, run.reads and run.writes count the calls of load_food_state
\* and save_food_state
\* ------------------------------------------------------------------------
NoTuple == [remaining_grams_calculated |-> None, latest_message_ts_processed |-> None,
            final_refill_ts |-> None, trace |-> <<>>]

NoReport == [percent_tenths |-> None, remaining_grams |-> None,
             days_of_food_left_tenths |-> None, daily_consumption_tenths |-> None,
             last_refill_ts |-> None, override_applied |-> FALSE]

\* the early return that leaves the state file alone
AfterPrepareNoSave(valid) == IF valid = <<>> THEN "return" ELSE "accumulate"

\* line 253: the branch taken once the messages are prepared
AfterPrepare(valid) == IF valid = <<>> THEN "no_valid" ELSE "accumulate"

\* line 348: the override block is entered only with the live flag
AfterAccumulate(current_is_food_low) == IF current_is_food_low THEN "override" ELSE "save"

\* lines 224-240: the call starts and loads the state file
LoadState ==
  /\ ~run.active
  /\ \E feed_messages \in Batches(history), cap \in Capacities, low \in BOOLEAN :
       run' = [active |-> TRUE, pc |-> "prepare", current_state |-> food_state,
               feed_messages |-> feed_messages, cap |-> cap, low |-> low,
               reads |-> 1, writes |-> 0, valid |-> <<>>, a |-> NoTuple,
               final_remaining_grams |-> None, override_applied |-> FALSE,
               report |-> NoReport]
  /\ UNCHANGED <<files, food_state, history, now, applied, reapplied>>

\* lines 243-258
PrepareStep ==
  /\ run.active /\ run.pc = "prepare"
  /\ \E valid \in {PrepareMessages(run.feed_messages)} :
       run' = [run EXCEPT !.valid = valid, !.pc = AfterPrepare(valid)]
  /\ UNCHANGED <<files, food_state, history, now, applied, reapplied>>

\* lines 254-256: the save and the return of the run without valid message
SaveNoValid ==
  /\ run.active /\ run.pc = "no_valid"
  /\ \E r \in {NoValidResult(run.current_state, now)} :
       /\ food_state' = r.save
       /\ run' = [run EXCEPT !.writes = @ + 1, !.report = r.report, !.pc = "return"]
  /\ UNCHANGED <<files, history, now, applied, reapplied>>

\* lines 260-347
AccumulateStep ==
  /\ run.active /\ run.pc = "accumulate"
  /\ \E a \in {Accumulate(run.valid, run.cap, run.current_state)} :
       run' = [run EXCEPT !.a = a, !.final_remaining_grams = a.remaining_grams_calculated,
                          !.pc = AfterAccumulate(run.low)]
  /\ UNCHANGED <<files, food_state, history, now, applied, reapplied>>

\* lines 349-393: the alert search and the consumption since the alert
ApplyOverride ==
  /\ run.active /\ run.pc = "override"
  /\ run' = [run EXCEPT !.final_remaining_grams = OverrideRemaining(run.valid, now),
                        !.override_applied = TRUE, !.pc = "save"]
  /\ UNCHANGED <<files, food_state, history, now, applied, reapplied>>

\* line 400
SaveStep ==
  /\ run.active /\ run.pc = "save"
  /\ food_state' = SavedState(run.a, run.final_remaining_grams)
  /\ run' = [run EXCEPT !.writes = @ + 1, !.pc = "report"]
  /\ UNCHANGED <<files, history, now, applied, reapplied>>

\* lines 402-437
ReportStep ==
  /\ run.active /\ run.pc = "report"
  /\ run' = [run EXCEPT !.report = StatusReport(run.final_remaining_grams, run.cap,
                                                 run.a.final_refill_ts, run.override_applied,
                                                 run.valid, now),
                        !.pc = "return"]
  /\ UNCHANGED <<files, food_state, history, now, applied, reapplied>>

\* lines 593-613: back in the main block, the report is printed
Return ==
  /\ run.active /\ run.pc = "return"
  /\ run' = NoRun
  /\ UNCHANGED <<files, food_state, history, now, applied, reapplied>>

NextSteps ==
  \/ DeviceEvent \/ ManualReset
  \/ LoadState \/ PrepareStep \/ SaveNoValid \/ AccumulateStep
  \/ ApplyOverride \/ SaveStep \/ ReportStep \/ Return

SpecSteps == Init /\ [][NextSteps]_vars

\* ------------------------------------------------------------------------
\* The runs of the main block with the live low-food flag, over a history
\* that ages past the lookback window
\* ------------------------------------------------------------------------
\* messages with and without the low-food mark: a dispense that carries it,
\* a dispense that does not, a status message that carries it
AlertPayloads ==
  { [message_type |-> "FEED_DONE", amount |-> 3, s1 |-> None, s2 |-> None,
     is_food_low |-> TRUE, dated |-> TRUE],
    [message_type |-> "FEED_DONE", amount |-> 3, s1 |-> None, s2 |-> None,
     is_food_low |-> FALSE, dated |-> TRUE],
    [message_type |-> "FOOD_LOW", amount |-> None, s1 |-> None, s2 |-> None,
     is_food_low |-> TRUE, dated |-> TRUE] }

AlertEvent ==
  /\ ~run.active
  /\ Len(history) < MaxEvents
  /\ \E p \in AlertPayloads :
       history' = Append(history, RawRecord(p, Len(history) + 1, now + 1))
  /\ now' = now + 1
  /\ UNCHANGED <<files, food_state, run, applied, reapplied>>

\* time passes without a message until the oldest or the newest message of
\* the history is exactly at the lookback cutoff, or one second past it
Age ==
  /\ ~run.active
  /\ \E i \in {1, Len(history)} \cap DOMAIN history, d \in {0, 1} :
       /\ history[i].created_at + LookbackSeconds + d > now
       /\ now' = history[i].created_at + LookbackSeconds + d
  /\ UNCHANGED <<files, food_state, history, run, applied, reapplied>>

\* lines 509-543: the ways the main block comes to its flag
Modes == {"dry_run", "rate_limited", "no_feeders", "fetch_failed", "live"}

\* the flag of the device taken whatever the way
CurrentFeederIsLowAlways(mode, is_food_low) == is_food_low

\* lines 506 and 531: False unless the feeder was fetched
CurrentFeederIsLow(mode, is_food_low) == IF mode = "live" THEN is_food_low ELSE FALSE

\* what the call leaves behind, with whether the feeder was fetched and the
\* alert time the override took (line 389)
LiveRunRecord(feed_messages, cap, low, r, mode) ==
  [active |-> TRUE, pre |-> food_state, feed_messages |-> feed_messages,
   valid |-> PrepareMessages(feed_messages),
   cap |-> cap, low |-> low, trace |-> r.trace, calculated |-> r.calculated,
   report |-> r.report, fetched |-> (mode = "live"),
   first_low_alert_ts |-> IF low THEN FirstLowAlert(PrepareMessages(feed_messages), 1, now)
                          ELSE None]

\* lines 504-591: the main block gets its flag and its list (the fetched
\* history or an older cached one) and calls calculate_food_status
EstimateLive ==
  /\ ~run.active
  /\ \E j \in 1..Len(history), cap \in {DefaultCapacity}, mode \in Modes, is_food_low \in BOOLEAN :
       \E r \in {CalculateFoodStatus(SubSeq(history, 1, j), cap,
                                     CurrentFeederIsLow(mode, is_food_low), food_state, now)} :
          /\ food_state' = r.save
          /\ run' = LiveRunRecord(SubSeq(history, 1, j), cap,
                                  CurrentFeederIsLow(mode, is_food_low), r, mode)
  /\ UNCHANGED <<files, history, now, applied, reapplied>>

NextLow == AlertEvent \/ Age \/ EstimateLive \/ Display

SpecLow == Init /\ [][NextLow]_vars

\* ------------------------------------------------------------------------
\* The runs over a history of sensor readings: each run is handed the history
\* fetched so far, so a later run sees the messages of the earlier ones
\* ------------------------------------------------------------------------
\* readings around the two limits of the refill test (0.7 * 25000 = 17500):
\* both low, both high, none, one exactly at 0.7 * threshold, one sensor high
\* only, one exactly at the threshold, one sensor reported only
SensorPayloads ==
  { [message_type |-> "FEED_DONE", amount |-> 1, s1 |-> 3000, s2 |-> 2000,
     is_food_low |-> FALSE, dated |-> TRUE],
    [message_type |-> "FEED_DONE", amount |-> 1, s1 |-> 26000, s2 |-> 26000,
     is_food_low |-> FALSE, dated |-> TRUE],
    [message_type |-> "FEED_START", amount |-> None, s1 |-> None, s2 |-> None,
     is_food_low |-> FALSE, dated |-> TRUE],
    [message_type |-> "FEED_DONE", amount |-> 1, s1 |-> 17500, s2 |-> 2000,
     is_food_low |-> FALSE, dated |-> TRUE],
    [message_type |-> "FEED_DONE", amount |-> 1, s1 |-> 26000, s2 |-> 2000,
     is_food_low |-> FALSE, dated |-> TRUE],
    [message_type |-> "FEED_DONE", amount |-> 1, s1 |-> 25000, s2 |-> 26000,
     is_food_low |-> FALSE, dated |-> TRUE],
    [message_type |-> "FEED_DONE", amount |-> 1, s1 |-> 3000, s2 |-> None,
     is_food_low |-> FALSE, dated |-> TRUE] }

SensorEvent ==
  /\ ~run.active
  /\ Len(history) < MaxReadings
  /\ \E p \in SensorPayloads :
       history' = Append(history, RawRecord(p, Len(history) + 1, now + 1))
  /\ now' = now + 1
  /\ UNCHANGED <<files, food_state, run, applied, reapplied>>

\* line 591, on the history as fetched so far (empty before the first message)
EstimateFetched ==
  /\ ~run.active
  /\ \E r \in {CalculateFoodStatus(history, DefaultCapacity, FALSE, food_state, now)} :
       /\ food_state' = r.save
       /\ run' = RunRecord(history, DefaultCapacity, FALSE, r)
  /\ UNCHANGED <<files, history, now, applied, reapplied>>

NextSensors == SensorEvent \/ EstimateFetched \/ Display

SpecSensors == Init /\ [][NextSensors]_vars

\* ------------------------------------------------------------------------
\* Messages that share a one-second stamp: created_at has a resolution of
\* one second (line 247), so a second message of the same second carries
\* the stamp of the one before it
\* ------------------------------------------------------------------------
SameSecondEvent ==
  /\ ~run.active
  /\ history # <<>>
  /\ Len(history) < MaxEvents
  /\ \E p \in Payloads :
       history' = Append(history, RawRecord(p, Len(history) + 1, now))
  /\ UNCHANGED <<files, food_state, now, run, applied, reapplied>>

NextBurst == DeviceEvent \/ SameSecondEvent \/ EstimateFetched \/ Display

SpecBurst == Init /\ [][NextBurst]_vars

\* ------------------------------------------------------------------------
\* load_food_state (lines 91-106) on every condition of the state file.
\* In this specification food_state holds the file as it lies on disk.
\* ------------------------------------------------------------------------
\* a key the JSON object does not have, a null, a string that is no number
Missing == -3
Null == -4
NotANumber == -5

FieldValues == {Missing, Null, NotANumber, -1, 0, 20}

FileKinds == {"absent", "unreadable", "malformed", "list", "number", "object"}

StateFile(kind, r, p, f) ==
  [kind |-> kind, remaining_grams |-> r, last_processed_ts |-> p, last_refill_ts |-> f]

FileConditions ==
  {StateFile(kind, Missing, Missing, Missing) : kind \in FileKinds \ {"object"}}
  \cup {StateFile("object", r, p, f) : r \in FieldValues, p \in FieldValues, f \in FieldValues}

Returned(st) == [outcome |-> "returned", state |-> st]
Raised(error) == [outcome |-> "raised", error |-> error]

\* state.get(key, default)
Get(v, default) == IF v = Missing THEN default ELSE v

\* lines 95-106: open raises FileNotFoundError (caught) or another OSError
\* (not caught); json.load raises JSONDecodeError (caught); state.get on a
\* value that is no object raises AttributeError (not caught); float of a
\* null raises TypeError and of a non-numeric string ValueError (both caught)
LoadFoodState(file) ==
  IF file.kind = "absent" THEN Returned(default_state)
  ELSE IF file.kind = "unreadable" THEN Raised("OSError")
  ELSE IF file.kind = "malformed" THEN Returned(default_state)
  ELSE IF file.kind \in {"list", "number"} THEN Raised("AttributeError")
  ELSE IF {file.remaining_grams, file.last_processed_ts, file.last_refill_ts}
            \cap {Null, NotANumber} # {}
  THEN Returned(default_state)
  ELSE Returned([remaining_grams |-> Get(file.remaining_grams, -1),
                 last_processed_ts |-> Get(file.last_processed_ts, 0),
                 last_refill_ts |-> Get(file.last_refill_ts, 0)])

InitFile ==
  /\ food_state = StateFile("absent", Missing, Missing, Missing)
  /\ history = <<>>
  /\ now = 1
  /\ run = NoRun
  /\ applied = {}
  /\ reapplied = {}
  /\ last_api_call = None
  /\ raw_history = <<>>

\* the file is removed, damaged, replaced or edited between two runs
FileChange ==
  /\ ~run.active
  /\ \E file \in FileConditions : food_state' = file
  /\ UNCHANGED <<files, history, now, run, applied, reapplied>>

\* line 474: a manual reset writes a well-formed file, if it can be written
ResetFile ==
  /\ ~run.active
  /\ food_state.kind # "unreadable"
  /\ \E cap \in Capacities :
       LET st == ResetState(cap, now) IN
       food_state' = StateFile("object", st.remaining_grams, st.last_processed_ts,
                               st.last_refill_ts)
  /\ UNCHANGED <<files, history, now, run, applied, reapplied>>

\* line 236: the estimator loads the state
LoadCall ==
  /\ ~run.active
  /\ run' = [active |-> TRUE, file |-> food_state, result |-> LoadFoodState(food_state)]
  /\ UNCHANGED <<files, food_state, history, now, applied, reapplied>>

NextFile == FileChange \/ ResetFile \/ LoadCall \/ Display

SpecFile == InitFile /\ [][NextFile]_vars

\* ------------------------------------------------------------------------
\* Runs on payloads whose values make a statement of the run raise: an
\* integer amount beyond the range of float (float() raises OverflowError,
\* lines 324, 386, 413) and a sensor reading that is a string (the
\* comparisons of lines 304-307 raise TypeError)
\* ------------------------------------------------------------------------
HugeAmount == -6

FaultPayloads ==
  { [message_type |-> "FEED_DONE", amount |-> 1, s1 |-> None, s2 |-> None,
     is_food_low |-> TRUE, dated |-> TRUE],
    [message_type |-> "FEED_DONE", amount |-> HugeAmount, s1 |-> None, s2 |-> None,
     is_food_low |-> FALSE, dated |-> TRUE],
    [message_type |-> "FEED_START", amount |-> None, s1 |-> NotANumber, s2 |-> 2000,
     is_food_low |-> FALSE, dated |-> TRUE],
    [message_type |-> "FEED_DONE", amount |-> 1, s1 |-> 3000, s2 |-> 2000,
     is_food_low |-> FALSE, dated |-> TRUE] }

FaultEvent ==
  /\ ~run.active
  /\ Len(history) < MaxEvents
  /\ \E p \in FaultPayloads :
       history' = Append(history, RawRecord(p, Len(history) + 1, now + 1))
  /\ now' = now + 1
  /\ UNCHANGED <<files, food_state, run, applied, reapplied>>

\* lines 283-331: whether the loop raises. A message that is not skipped
\* raises in the refill test when all four readings are present and one of
\* them is a string, and at line 324 when it is a FEED_DONE with an amount
\* float() cannot take
RECURSIVE LoopRaises(_, _, _, _, _, _)
LoopRaises(valid, i, prev1, prev2, unknown, last_processed_ts) ==
  IF i > Len(valid) THEN FALSE
  ELSE LET msg == valid[i] IN
       IF Skipped(unknown, msg.timestamp, last_processed_ts)
       THEN LoopRaises(valid, i + 1, prev1, prev2, unknown, last_processed_ts)
       ELSE \/ /\ prev1 # None /\ prev2 # None /\ msg.s1 # None /\ msg.s2 # None
               /\ NotANumber \in {prev1, prev2, msg.s1, msg.s2}
            \/ msg.message_type = "FEED_DONE" /\ msg.amount = HugeAmount
            \/ LoopRaises(valid, i + 1,
                          IF msg.s1 # None THEN msg.s1 ELSE prev1,
                          IF msg.s2 # None THEN msg.s2 ELSE prev2,
                          FALSE, last_processed_ts)

\* lines 260-331
AccumulateRaises(valid, st) ==
  LET unknown0 == InitialStateWasUnknown(st.remaining_grams)
      seed == IF unknown0 THEN [s1 |-> None, s2 |-> None]
              ELSE FindPrevSensors(valid, Len(valid), st.last_processed_ts)
  IN LoopRaises(valid, 1, seed.s1, seed.s2, unknown0, st.last_processed_ts)

\* lines 377-387: float() of the amount of a FEED_DONE later than the alert
OverrideRaises(valid, now_ts) ==
  \E k \in 1..Len(valid) :
     /\ AfterAlert(valid[k].timestamp, FirstLowAlert(valid, 1, now_ts))
     /\ valid[k].message_type = "FEED_DONE"
     /\ valid[k].amount = HugeAmount

\* lines 404-415: float() of the amount of a FEED_DONE of the last seven
\* days, whether the loop processed the message or skipped it
ReportRaises(valid, now_ts) ==
  \E k \in RecentFeeds(valid, now_ts) : valid[k].amount = HugeAmount

\* lines 224-240, with the history as fetched
LoadRun ==
  /\ ~run.active
  /\ \E low \in BOOLEAN :
       run' = [active |-> TRUE, pc |-> "prepare", current_state |-> food_state,
               feed_messages |-> history, cap |-> DefaultCapacity, low |-> low,
               reads |-> 1, writes |-> 0, valid |-> <<>>, a |-> NoTuple,
               final_remaining_grams |-> None, override_applied |-> FALSE,
               report |-> NoReport]
  /\ UNCHANGED <<files, food_state, history, now, applied, reapplied>>

\* lines 260-347: the pass ends with its tuple, or an exception leaves the
\* function
AccumulateOrRaise ==
  /\ run.active /\ run.pc = "accumulate"
  /\ IF AccumulateRaises(run.valid, run.current_state)
     THEN run' = [run EXCEPT !.pc = "raised"]
     ELSE \E a \in {Accumulate(run.valid, run.cap, run.current_state)} :
            run' = [run EXCEPT !.a = a,
                               !.final_remaining_grams = a.remaining_grams_calculated,
                               !.pc = AfterAccumulate(run.low)]
  /\ UNCHANGED <<files, food_state, history, now, applied, reapplied>>

\* lines 349-393
OverrideOrRaise ==
  /\ run.active /\ run.pc = "override"
  /\ IF OverrideRaises(run.valid, now)
     THEN run' = [run EXCEPT !.pc = "raised"]
     ELSE run' = [run EXCEPT !.final_remaining_grams = OverrideRemaining(run.valid, now),
                             !.override_applied = TRUE, !.pc = "save"]
  /\ UNCHANGED <<files, food_state, history, now, applied, reapplied>>

\* lines 402-437
ReportOrRaise ==
  /\ run.active /\ run.pc = "report"
  /\ IF ReportRaises(run.valid, now)
     THEN run' = [run EXCEPT !.pc = "raised"]
     ELSE run' = [run EXCEPT !.report = StatusReport(run.final_remaining_grams, run.cap,
                                                     run.a.final_refill_ts,
                                                     run.override_applied, run.valid, now),
                             !.pc = "return"]
  /\ UNCHANGED <<files, food_state, history, now, applied, reapplied>>

\* the exception reaches the caller: the run ends without a report
Abort ==
  /\ run.active /\ run.pc = "raised"
  /\ run' = NoRun
  /\ UNCHANGED <<files, food_state, history, now, applied, reapplied>>

NextFaults ==
  \/ FaultEvent \/ ManualReset
  \/ LoadRun \/ PrepareStep \/ SaveNoValid \/ AccumulateOrRaise
  \/ OverrideOrRaise \/ SaveStep \/ ReportOrRaise \/ Return \/ Abort

SpecFaults == Init /\ [][NextFaults]_vars

\* ------------------------------------------------------------------------
\* The main block (lines 504-591): the rate-limit gate, the feeder fetch,
\* the history fetch or the cache, the estimator
\* ------------------------------------------------------------------------
API_CALL_INTERVAL == 60

\* the clock of the runs of the main block stops here
MaxClock == 130

\* lines 58-66: without the log file the call is allowed; with it, not before
\* API_CALL_INTERVAL seconds have passed since the time it holds
CanMakeApiCall(last_call_time, now_ts) ==
  \/ last_call_time = None
  \/ ~(now_ts - last_call_time < API_CALL_INTERVAL)

\* lines 68-73: the time is written to the log, unless the write fails (the
\* IOError is caught and only reported)
LogApiCall(written, now_ts) == IF written THEN now_ts ELSE last_api_call

\* the feeder dispenses and the vendor records it
Dispense ==
  /\ ~run.active
  /\ Len(history) < MaxEvents
  /\ history' = Append(history, RawRecord(
        [message_type |-> "FEED_DONE", amount |-> 1, s1 |-> None, s2 |-> None,
         is_food_low |-> FALSE, dated |-> TRUE], Len(history) + 1, now + 1))
  /\ now' = now + 1
  /\ UNCHANGED <<food_state, run, applied, reapplied, files>>

\* time passes between two runs of the script
Wait ==
  /\ ~run.active
  /\ now + API_CALL_INTERVAL <= MaxClock
  /\ now' = now + API_CALL_INTERVAL
  /\ UNCHANGED <<food_state, history, run, applied, reapplied, files>>

\* lines 504-514: the script starts, with or without --dry-run
StartMain ==
  /\ ~run.active
  /\ \E dry_run \in BOOLEAN :
       run' = [active |-> TRUE, pc |-> IF dry_run THEN "load_cache" ELSE "first_gate",
               dry_run |-> dry_run, feed_messages |-> <<>>, feeder_data |-> FALSE,
               thing_name |-> FALSE, low |-> FALSE, first_call_allowed |-> FALSE,
               denied_before_history |-> FALSE, request_failed |-> FALSE,
               fetched |-> FALSE, pre |-> food_state, report |-> NoReport]
  /\ UNCHANGED <<food_state, history, now, applied, reapplied, files>>

\* lines 516-520
FirstGate ==
  /\ run.active /\ run.pc = "first_gate"
  /\ IF CanMakeApiCall(last_api_call, now)
     THEN run' = [run EXCEPT !.first_call_allowed = TRUE, !.pc = "fetch_feeders"]
     ELSE run' = [run EXCEPT !.pc = "load_cache"]
  /\ UNCHANGED <<food_state, history, now, applied, reapplied, files>>

\* lines 524-543: client.feeders raises (the cache is used), or answers and
\* the call is logged; the answer holds no feeder (the cache is used) or the
\* first feeder's data, with or without a thing_name
FetchFeeders ==
  /\ run.active /\ run.pc = "fetch_feeders"
  /\ \/ /\ run' = [run EXCEPT !.pc = "load_cache"]
        /\ UNCHANGED files
     \/ \E written \in BOOLEAN :
          /\ last_api_call' = LogApiCall(written, now)
          /\ \/ run' = [run EXCEPT !.pc = "load_cache"]
             \/ \E thing_name \in BOOLEAN, is_food_low \in BOOLEAN :
                  run' = [run EXCEPT !.feeder_data = TRUE, !.thing_name = thing_name,
                                     !.low = is_food_low,
                                     !.pc = IF thing_name THEN "second_gate" ELSE "estimate"]
          /\ UNCHANGED raw_history
  /\ UNCHANGED <<food_state, history, now, applied, reapplied>>

\* lines 552-557: the gate again, right after the feeder call was logged
SecondGate ==
  /\ run.active /\ run.pc = "second_gate"
  /\ IF CanMakeApiCall(last_api_call, now)
     THEN run' = [run EXCEPT !.pc = "fetch_history"]
     ELSE run' = [run EXCEPT !.denied_before_history = TRUE, !.pc = "load_cache"]
  /\ UNCHANGED <<food_state, history, now, applied, reapplied, files>>

\* lines 559-571: the request fails (the cache is used), or the vendor's
\* records arrive, the call is logged and the records are saved to
\* raw_feed_messages.json
FetchHistory ==
  /\ run.active /\ run.pc = "fetch_history"
  /\ \/ /\ run' = [run EXCEPT !.request_failed = TRUE, !.pc = "load_cache"]
        /\ UNCHANGED files
     \/ \E written \in BOOLEAN :
          /\ last_api_call' = LogApiCall(written, now)
          /\ raw_history' = history
          /\ run' = [run EXCEPT !.feed_messages = history, !.fetched = TRUE,
                                !.pc = "estimate"]
  /\ UNCHANGED <<food_state, history, now, applied, reapplied>>

\* load_raw_results (lines 83-89) at lines 511, 520, 538, 545, 557, 571
LoadCache ==
  /\ run.active /\ run.pc = "load_cache"
  /\ run' = [run EXCEPT !.feed_messages = raw_history, !.pc = "estimate"]
  /\ UNCHANGED <<food_state, history, now, applied, reapplied, files>>

\* lines 586-591: the estimator runs unless the list is empty
EstimateMain ==
  /\ run.active /\ run.pc = "estimate"
  /\ IF run.feed_messages = <<>>
     THEN run' = [run EXCEPT !.pc = "done"] /\ UNCHANGED food_state
     ELSE \E r \in {CalculateFoodStatus(run.feed_messages, DefaultCapacity, run.low,
                                        food_state, now)} :
            /\ food_state' = r.save
            /\ run' = [run EXCEPT !.report = r.report, !.pc = "done"]
  /\ UNCHANGED <<history, now, applied, reapplied, files>>

\* lines 593-617: the status is printed and the script ends
Finish ==
  /\ run.active /\ run.pc = "done"
  /\ run' = NoRun
  /\ UNCHANGED <<food_state, history, now, applied, reapplied, files>>

NextMain ==
  \/ Dispense \/ Wait
  \/ StartMain \/ FirstGate \/ FetchFeeders \/ SecondGate \/ FetchHistory
  \/ LoadCache \/ EstimateMain \/ Finish

SpecMain == Init /\ [][NextMain]_vars

\* ------------------------------------------------------------------------
\* Properties
\* ------------------------------------------------------------------------
Known(st) == st.remaining_grams >= 0

\* the running total the loop of the run in flight ended with
RunningTotal == IF run.trace = <<>> THEN run.pre.remaining_grams
                ELSE run.trace[Len(run.trace)].after

NoRefillInRun == \A k \in 1..Len(run.trace) : ~run.trace[k].refill

SensorBearing(m) == m.s1 # None /\ m.s2 # None

\* grams of the FEED_DONE messages with a positive amount newer than ts
RECURSIVE GramsAfter(_, _, _)
GramsAfter(valid, i, ts) ==
  IF i > Len(valid) THEN 0
  ELSE (IF valid[i].message_type = "FEED_DONE" /\ valid[i].amount # None
           /\ valid[i].amount > 0 /\ valid[i].timestamp > ts
        THEN valid[i].amount * portion_weight ELSE 0) + GramsAfter(valid, i + 1, ts)

NewerThan(valid, ts) == {k \in 1..Len(valid) : valid[k].timestamp > ts}

\* C1: Idempotence. A run has just been made; every message of its list is at
\* or before the persisted last_processed_ts; the same list is run again (the
\* clock may have moved on by then): remaining_grams and last_processed_ts
\* stay as the first run wrote them.
C1Idempotence ==
  (run.active /\ \A k \in 1..Len(run.valid) :
                    run.valid[k].timestamp <= food_state.last_processed_ts)
  => \A later \in {now, now + 1} :
       \A second \in {CalculateFoodStatus(run.feed_messages, run.cap, run.low,
                                          food_state, later).save} :
          /\ second.remaining_grams = food_state.remaining_grams
          /\ second.last_processed_ts = food_state.last_processed_ts

\* C2: Override non-persistence. In a run with the override applied the
\* remaining_grams written to the state file is max(0, running total), and
\* the whole state written is the one the run writes with the low-food flag
\* false.
C2OverrideNotPersisted ==
  (run.active /\ run.report.override_applied)
  => /\ food_state.remaining_grams = Max(0, RunningTotal)
     /\ food_state = CalculateFoodStatus(run.feed_messages, run.cap, FALSE, run.pre, now).save

\* C2 witness: an override run has reported a value other than the one it
\* calculated and saved
C2Witness ==
  /\ run.active /\ run.report.override_applied
  /\ run.report.remaining_grams # run.calculated
  /\ run.calculated > 0
  /\ run.trace # <<>>

C4AtMostOnce ==
  /\ reapplied = {}
  /\ (run.active /\ Known(run.pre))
     => \A k \in 1..Len(run.trace) : run.trace[k].timestamp > run.pre.last_processed_ts

\* C4 witness: a run was handed a dispense an earlier run had subtracted,
\* together with a newer one, and subtracted only the newer one
C4Witness ==
  /\ run.active /\ Known(run.pre)
  /\ \E k \in 1..Len(run.valid) :
       /\ run.valid[k].id \in applied
       /\ run.valid[k].timestamp <= run.pre.last_processed_ts
       /\ run.valid[k].id \notin FedIds(run.trace)
  /\ FedIds(run.trace) # {}

\* C5: Refill reset. Two consecutive sensor-bearing messages of the list go
\* from both readings below 0.7 * threshold to both above the threshold, the
\* first has been processed (by this run or an earlier one) and the second is
\* newer than last_processed_ts: the running total is full capacity at the
\* second message before its own dispense, and the persisted last_refill_ts
\* is its time.
C5RefillReset ==
  run.active =>
    \A i, j \in 1..Len(run.valid) :
      LET a == run.valid[i]
          b == run.valid[j]
      IN ( /\ i < j /\ SensorBearing(a) /\ SensorBearing(b)
           /\ \A m \in (i + 1)..(j - 1) : ~SensorBearing(run.valid[m])
           /\ 10 * a.s1 < 7 * refill_threshold_sensor1
           /\ 10 * a.s2 < 7 * refill_threshold_sensor2
           /\ b.s1 > refill_threshold_sensor1 /\ b.s2 > refill_threshold_sensor2
           /\ a.id \in applied
           /\ b.timestamp > run.pre.last_processed_ts )
         => /\ \E k \in 1..Len(run.trace) :
                 /\ run.trace[k].id = b.id
                 /\ run.trace[k].refill
                 /\ run.trace[k].level = run.cap
            /\ food_state.last_refill_ts = b.timestamp

\* C6: Consumption monotonicity. In a run from a known state that detects no
\* refill the running total does not increase from message to message, and
\* the persisted remaining_grams does not increase across the run.
C6ConsumptionMonotone ==
  (run.active /\ Known(run.pre) /\ NoRefillInRun)
  => /\ \A k \in 1..Len(run.trace) : run.trace[k].after <= run.trace[k].before
     /\ \A k \in 2..Len(run.trace) : run.trace[k].before = run.trace[k - 1].after
     /\ food_state.remaining_grams <= run.pre.remaining_grams

\* C6 witness: a run without refill from a known state has subtracted two
\* dispenses
C6Witness ==
  /\ run.active /\ Known(run.pre) /\ NoRefillInRun
  /\ Cardinality(FedIds(run.trace)) >= 2
  /\ food_state.remaining_grams < run.pre.remaining_grams

\* C7: a run from a known remaining R that detects no refill persists
\* max(0, R - grams of the FEED_DONE messages with a positive amount newer
\* than last_processed_ts), and the time of the latest newer valid message.
C7Subtraction ==
  (run.active /\ Known(run.pre) /\ NoRefillInRun)
  => /\ food_state.remaining_grams =
          Max(0, run.pre.remaining_grams
                 - GramsAfter(run.valid, 1, run.pre.last_processed_ts))
     /\ NewerThan(run.valid, run.pre.last_processed_ts) # {}
        => \E k \in NewerThan(run.valid, run.pre.last_processed_ts) :
             /\ food_state.last_processed_ts = run.valid[k].timestamp
             /\ \A m \in 1..Len(run.valid) : run.valid[m].timestamp <= run.valid[k].timestamp

\* C8: Clamp bounds. The reported percent_remaining is within [0, 100] and
\* the reported remaining_grams is >= 0.
C8ClampBounds ==
  run.active => /\ run.report.percent_tenths >= 0
                /\ run.report.percent_tenths <= 1000
                /\ run.report.remaining_grams >= 0

\* C8 witness: a run under a small capacity has reported more grams than the
\* capacity, with the percentage held at 100
C8Witness ==
  /\ run.active /\ run.cap > 0
  /\ run.report.remaining_grams > run.cap
  /\ run.report.percent_tenths = 1000

\* C9: the reported remaining_grams is within [0, feeder_capacity].
C9ReportWithinCapacity ==
  run.active => /\ run.report.remaining_grams >= 0
                /\ run.report.remaining_grams <= run.cap

\* C10: a run without any valid message leaves the persisted remaining_grams
\* as it was, or writes 0 if it was unknown.
C10NoEventsKeepsRemaining ==
  (run.active /\ run.valid = <<>>)
  => food_state.remaining_grams =
       (IF Known(run.pre) THEN run.pre.remaining_grams ELSE 0)

\* grams of all the FEED_DONE messages with a positive amount
RECURSIVE GramsAll(_, _)
GramsAll(valid, i) ==
  IF i > Len(valid) THEN 0
  ELSE (IF valid[i].message_type = "FEED_DONE" /\ valid[i].amount # None /\ valid[i].amount > 0
        THEN valid[i].amount * portion_weight ELSE 0) + GramsAll(valid, i + 1)

\* C20: Bootstrap. A run that loads the unknown state and has a valid message
\* walks every valid message, oldest first, takes the reservoir for full at
\* the oldest one, and, when no refill is detected, persists
\* max(0, capacity - grams of all FEED_DONE messages with a positive amount);
\* the persisted remaining_grams is not left unknown.
C20Bootstrap ==
  (run.active /\ ~Known(run.pre) /\ run.valid # <<>>)
  => /\ Len(run.trace) = Len(run.valid)
     /\ \A k \in 1..Len(run.valid) : run.trace[k].id = run.valid[k].id
     /\ run.trace[1].before < 0 /\ run.trace[1].level = run.cap
     /\ NoRefillInRun
        => food_state.remaining_grams = Max(0, run.cap - GramsAll(run.valid, 1))
     /\ Known(food_state)

\* C20 witness: a bootstrap run over two dispenses, the oldest message
\* included, has persisted the capacity less both
C20Witness ==
  /\ run.active /\ ~Known(run.pre) /\ NoRefillInRun
  /\ Len(run.valid) >= 2
  /\ run.trace[1].fed /\ run.trace[2].fed
  /\ food_state.remaining_grams > 0
  /\ food_state.remaining_grams = run.cap - GramsAll(run.valid, 1)

\* the messages of the run in flight that carry the low-food mark and are
\* no older than the lookback window
LowInWindow ==
  {k \in 1..Len(run.valid) :
     run.valid[k].is_food_low /\ run.valid[k].timestamp >= now - LookbackSeconds}

LowBeforeWindow ==
  {k \in 1..Len(run.valid) :
     run.valid[k].is_food_low /\ run.valid[k].timestamp < now - LookbackSeconds}

\* portions of the FEED_DONE messages newer than ts
RECURSIVE PortionsAfter(_, _, _)
PortionsAfter(valid, i, ts) ==
  IF i > Len(valid) THEN 0
  ELSE (IF valid[i].message_type = "FEED_DONE" /\ valid[i].amount # None
           /\ valid[i].timestamp > ts
        THEN valid[i].amount ELSE 0) + PortionsAfter(valid, i + 1, ts)

C14OverrideValue ==
  (run.active /\ run.report.override_applied)
  => /\ run.report.remaining_grams =
          Max(0, FOOD_LOW_OVERRIDE_GRAMS
                 - portion_weight * PortionsAfter(run.valid, 1, run.first_low_alert_ts))
     /\ run.report.remaining_grams >= 0
     /\ run.report.remaining_grams <= FOOD_LOW_OVERRIDE_GRAMS

\* C14 witness: the alert message is itself a dispense, one dispense follows
\* it, and the report is the baseline less the second dispense only
C14WitnessAtAlert ==
  /\ run.active /\ run.report.override_applied
  /\ \E k \in 1..Len(run.valid) :
       /\ run.valid[k].timestamp = run.first_low_alert_ts
       /\ run.valid[k].message_type = "FEED_DONE" /\ run.valid[k].amount > 0
  /\ PortionsAfter(run.valid, 1, run.first_low_alert_ts) = 3
  /\ run.report.remaining_grams = FOOD_LOW_OVERRIDE_GRAMS - 3 * portion_weight

\* C15: the override runs only with the live flag: when the feeder was not
\* fetched (dry run, rate limit, no feeder, failed fetch) the flag handed to
\* the estimator is false, and with the flag false override_applied is false
\* and the report carries the calculated value, whatever the history marks.
C15OverrideOnlyWhenLive ==
  run.active
  => /\ ~run.fetched => ~run.low
     /\ ~run.low => /\ ~run.report.override_applied
                    /\ run.report.remaining_grams = run.calculated

\* C15 witness: a run without the live flag over a history with a marked
\* message inside the window has reported its calculated value
C15WitnessMarkedHistory ==
  /\ run.active /\ ~run.fetched /\ ~run.low
  /\ LowInWindow # {}
  /\ run.report.remaining_grams = run.calculated
  /\ run.calculated > FOOD_LOW_OVERRIDE_GRAMS

\* persisted states a second run could have started from
OtherStates ==
  { default_state,
    [remaining_grams |-> 0, last_processed_ts |-> 1, last_refill_ts |-> 0],
    [remaining_grams |-> 20, last_processed_ts |-> run.valid[1].timestamp,
     last_refill_ts |-> 1],
    [remaining_grams |-> DefaultCapacity, last_processed_ts |-> now, last_refill_ts |-> now] }

\* C16: the override estimate does not depend on the persisted state: the
\* same list, clock and capacity with the live flag true report the same
\* remaining_grams and percent_remaining from any other persisted state.
C16OverrideIndependent ==
  (run.active /\ run.low /\ run.valid # <<>>)
  => \A st \in OtherStates :
       \A other \in {CalculateFoodStatus(run.feed_messages, run.cap, TRUE, st, now).report} :
          /\ other.remaining_grams = run.report.remaining_grams
          /\ other.percent_tenths = run.report.percent_tenths

\* C16 witness: an override run from a known state has reported a value
\* other than the one it calculated
C16WitnessKnown ==
  /\ run.active /\ run.low /\ Known(run.pre)
  /\ run.pre \notin OtherStates
  /\ run.report.remaining_grams # run.calculated
  /\ run.report.remaining_grams > 0

\* the trace entries of the run in flight at which a refill was declared
RefillsInRun == {k \in 1..Len(run.trace) : run.trace[k].refill}

\* C17: Refill time. After a run that detected a refill the persisted
\* last_refill_ts is the time of the latest refill it detected; after a run
\* that detected none (no valid message, or a bootstrap that only assumed a
\* full reservoir) it is the value the run loaded.
C17RefillTimestamp ==
  run.active
  => /\ RefillsInRun # {}
        => \E k \in RefillsInRun :
             /\ food_state.last_refill_ts = run.trace[k].timestamp
             /\ \A m \in RefillsInRun : m <= k
     /\ RefillsInRun = {} => food_state.last_refill_ts = run.pre.last_refill_ts

\* C17 witness: a run has detected two refills and persisted the time of the
\* second
C17WitnessTwoRefills ==
  /\ run.active /\ Cardinality(RefillsInRun) = 2
  /\ \E k \in RefillsInRun :
       /\ food_state.last_refill_ts = run.trace[k].timestamp
       /\ \E m \in RefillsInRun : m < k

\* C17 witness: a later run without refill has kept the refill time an
\* earlier run persisted
C17WitnessKept ==
  /\ run.active /\ RefillsInRun = {} /\ run.trace # <<>>
  /\ run.pre.last_refill_ts > 0
  /\ food_state.last_refill_ts = run.pre.last_refill_ts

\* the latest reading of a sensor among the first i messages
RECURSIVE LastReading1(_, _)
LastReading1(valid, i) ==
  IF i = 0 THEN None
  ELSE IF valid[i].s1 # None THEN valid[i].s1 ELSE LastReading1(valid, i - 1)

RECURSIVE LastReading2(_, _)
LastReading2(valid, i) ==
  IF i = 0 THEN None
  ELSE IF valid[i].s2 # None THEN valid[i].s2 ELSE LastReading2(valid, i - 1)

IndexOf(valid, id) == CHOOSE k \in 1..Len(valid) : valid[k].id = id

\* C18: Seeding. In a run from a known state the previous pair the first new
\* message is tested against is the pair of the latest message at or before
\* last_processed_ts that carries readings, also when messages without
\* readings follow it; so low readings of an earlier run followed by high
\* readings in this run are declared a refill.
C18SeedFromLatestReadings ==
  (run.active /\ Known(run.pre) /\ run.trace # <<>>)
  => \A i \in 1..Len(run.valid) :
       ( /\ run.valid[i].timestamp <= run.pre.last_processed_ts
         /\ SensorBearing(run.valid[i])
         /\ \A m \in (i + 1)..Len(run.valid) :
              run.valid[m].timestamp <= run.pre.last_processed_ts
              => (run.valid[m].s1 = None /\ run.valid[m].s2 = None) )
       => /\ run.trace[1].prev1 = run.valid[i].s1
          /\ run.trace[1].prev2 = run.valid[i].s2
          /\ RefillTest(run.valid[i].s1, run.valid[i].s2,
                        run.valid[IndexOf(run.valid, run.trace[1].id)].s1,
                        run.valid[IndexOf(run.valid, run.trace[1].id)].s2)
             => run.trace[1].refill

\* C19: Refill decision. At each processed message a refill is declared
\* exactly when the last seen reading of each sensor (carried over messages
\* without it) and both current readings are present, both previous ones are
\* below 0.7 * threshold and both current ones above the threshold, all strict.
C19RefillDecision ==
  run.active
  => \A k \in 1..Len(run.trace) :
       LET idx == IndexOf(run.valid, run.trace[k].id)
           previous_a == LastReading1(run.valid, idx - 1)
           previous_b == LastReading2(run.valid, idx - 1)
           current_a == run.valid[idx].s1
           current_b == run.valid[idx].s2
       IN run.trace[k].refill
          <=> /\ previous_a # None /\ previous_b # None
              /\ current_a # None /\ current_b # None
              /\ 10 * previous_a < 7 * refill_threshold_sensor1
              /\ 10 * previous_b < 7 * refill_threshold_sensor2
              /\ current_a > refill_threshold_sensor1
              /\ current_b > refill_threshold_sensor2

\* C21: the remaining_grams an estimation run writes to the state file is
\* >= 0: neither the unknown mark -1 nor a running total below 0 is persisted.
C21PersistedNonNegative ==
  run.active => food_state.remaining_grams >= 0

\* C21 witness: a run whose running total went below 0 has written 0
C21WitnessNegativeTotal ==
  /\ run.active /\ run.trace # <<>>
  /\ RunningTotal < -1
  /\ food_state.remaining_grams = 0

\* the list of a run, oldest message first
Chronological(feed_messages) ==
  IF Len(feed_messages) > 1 /\ feed_messages[1].id > feed_messages[Len(feed_messages)].id
  THEN Reverse(feed_messages) ELSE feed_messages

\* what two runs persist: one on the first j messages, then one on the whole list
SplitRuns(feed_messages, j, cap, low, st, now_ts) ==
  CalculateFoodStatus(feed_messages, cap, low,
      CalculateFoodStatus(SubSeq(Chronological(feed_messages), 1, j), cap, low, st, now_ts).save,
      now_ts).save

\* C26: batch-split equivalence. A run has been made on a list from a known
\* state; running first on any non-empty proper prefix of the list (oldest
\* first) and then on the whole list, from the same initial state, persists
\* the state the single run persisted.
C26BatchSplit ==
  (run.active /\ Known(run.pre) /\ run.valid # <<>>) =>
     \A j \in 1..(Len(run.feed_messages) - 1) :
        PrepareMessages(SubSeq(Chronological(run.feed_messages), 1, j)) # <<>> =>
           SplitRuns(run.feed_messages, j, run.cap, run.low, run.pre, now) = food_state

\* C29: starting from the default state, through estimation runs and manual
\* resets, the persisted last_refill_ts is never later than the persisted
\* last_processed_ts, and no write lowers last_refill_ts.
C29RefillTsOrdered ==
  /\ [](food_state.last_refill_ts <= food_state.last_processed_ts)
  /\ [][food_state'.last_refill_ts >= food_state.last_refill_ts]_vars

\* C29 witness: after a manual reset a run detected a later refill and moved
\* last_refill_ts forward, together with last_processed_ts
C29WitnessRefillAfterReset ==
  /\ run.active /\ run.pre.last_refill_ts > 0
  /\ run.pre.last_refill_ts = run.pre.last_processed_ts
  /\ \E k \in 1..Len(run.trace) : run.trace[k].refill
  /\ food_state.last_refill_ts > run.pre.last_refill_ts
  /\ food_state.last_processed_ts > food_state.last_refill_ts

\* a state as a manual reset writes it
IsResetState(st) ==
  /\ st.remaining_grams \in Capacities
  /\ st.last_processed_ts > 0
  /\ st.last_refill_ts = st.last_processed_ts

C30WitnessOnlyOlder ==
  /\ run.active /\ IsResetState(run.pre) /\ run.pre.remaining_grams = DefaultCapacity
  /\ Len(run.valid) >= 2 /\ run.trace = <<>>
  /\ run.report.remaining_grams = DefaultCapacity

\* a record that has a message_type and a created_at that parses
WellFormed(rec) == rec.created_at >= 0 /\ rec.message_type # "MISSING"

\* records without created_at, without message_type, with an unparsable
\* created_at; each would dispense and show full sensors if it were processed
MalformedRecords ==
  { [id |-> 0, created_at |-> c, message_type |-> t, amount |-> 1,
     s1 |-> 26000, s2 |-> 26000, is_food_low |-> TRUE] :
       <<c, t>> \in {<<None, "FEED_DONE">>, <<BadDate, "FEED_DONE">>, <<1, "MISSING">>} }

\* C23: records with a missing or unparsable created_at, or without
\* message_type, are dropped: a run persists and reports what a run on the
\* list without them persists and reports, and a malformed record added at
\* either end of the list changes neither.
C23MalformedDropped ==
  run.active =>
     /\ \E r \in {CalculateFoodStatus(SelectSeq(run.feed_messages, WellFormed),
                                      run.cap, run.low, run.pre, now)} :
           r.save = food_state /\ r.report = run.report
     /\ \A bad \in MalformedRecords :
           \A feed_messages \in {<<bad>> \o run.feed_messages, Append(run.feed_messages, bad)} :
              \E r \in {CalculateFoodStatus(feed_messages, run.cap, run.low, run.pre, now)} :
                 r.save = food_state /\ r.report = run.report

\* C23 witness: a run on a list that holds a record with an unparsable
\* created_at next to dated records, one of which it processed
C23WitnessUnparsable ==
  /\ run.active /\ run.trace # <<>>
  /\ \E k \in 1..Len(run.feed_messages) : run.feed_messages[k].created_at = BadDate
  /\ Len(run.valid) < Len(run.feed_messages)

\* the orders in which a list may be handed to a run
Orderings(feed_messages) ==
  { [i \in 1..Len(feed_messages) |-> feed_messages[f[i]]] :
       f \in Permutations(1..Len(feed_messages)) }

\* C28: order independence. A run handed the same messages in any other
\* order, from the same state, persists and reports what this run did, also
\* when messages share a one-second stamp.
C28OrderIndependent ==
  run.active =>
     \A feed_messages \in Orderings(run.feed_messages) :
        \E r \in {CalculateFoodStatus(feed_messages, run.cap, run.low, run.pre, now)} :
           r.save = food_state /\ r.report = run.report

\* C22: load_food_state never fails its caller: whatever the condition of
\* the state file, the call returns three numeric fields, the defaults
\* (-1, 0, 0) standing in for the fields the file does not give.
C22LoadNeverFails ==
  run.active =>
     /\ run.result.outcome = "returned"
     /\ {run.result.state.remaining_grams, run.result.state.last_processed_ts,
         run.result.state.last_refill_ts} \cap {Missing, Null, NotANumber} = {}
     /\ run.file.remaining_grams = Missing => run.result.state.remaining_grams = -1
     /\ run.file.last_processed_ts = Missing => run.result.state.last_processed_ts = 0
     /\ run.file.last_refill_ts = Missing => run.result.state.last_refill_ts = 0

\* C25: days_of_food_left. When the grams dispensed in the trailing seven
\* days are 0 (no FEED_DONE there, amounts absent, or no valid message at
\* all) the report carries the sentinel 999; when they are positive it
\* carries (final_remaining_grams / daily rate) * 0.9, to one decimal.
C25DaysOfFoodLeft ==
  run.active =>
     LET grams == GramsAfter(run.valid, 1, now - SevenDays)
         seconds == SecondsAnalyzed(run.valid, RecentFeeds(run.valid, now), now)
     IN IF grams = 0
        THEN run.report.days_of_food_left_tenths = UnboundedDays
        ELSE run.report.days_of_food_left_tenths =
                Round(run.report.remaining_grams * seconds, grams * 9600)

\* C24: partial-failure safety. A run that returns has written the state
\* file once and carries a report; a run that raises has not written the
\* file, which is as the run found it.
C24PartialFailureSafety ==
  /\ (run.active /\ run.pc = "return") => (run.writes = 1 /\ run.report # NoReport)
  /\ (run.active /\ run.pc = "raised") =>
        (run.writes = 0 /\ food_state = run.current_state)

\* C27: a live run whose first gate allowed the API call and whose feeder
\* fetch brought feeder data with a thing_name is not denied at the gate
\* before the history call: unless the request itself fails it fetches the
\* vendor's records and saves them to the cache.
C27HistoryFetched ==
  (run.active /\ run.pc \in {"load_cache", "estimate", "done"}
     /\ run.first_call_allowed /\ run.feeder_data /\ run.thing_name) =>
        /\ ~run.denied_before_history
        /\ ~run.request_failed => (run.fetched /\ raw_history = history)

\* the statements taken one by one leave what the call as a whole leaves
StepsAgree ==
  (run.active /\ run.pc = "return")
  => \A r \in {CalculateFoodStatus(run.feed_messages, run.cap, run.low,
                                   run.current_state, now)} :
        /\ food_state = r.save
        /\ run.report = r.report

\* C11: within one run the save of the accumulated tuple has been made by the
\* time the override logic (alert search, consumption since the alert) begins.
C11SaveBeforeOverride ==
  (run.active /\ run.pc = "override") => run.writes = 1

\* C12: every completed run, on every path, has read the state file once and
\* written it exactly once; no run writes it a second time.
C12ReadOnceWriteOnce ==
  /\ (run.active /\ run.pc = "return") => (run.reads = 1 /\ run.writes = 1)
  /\ run.active => (run.reads = 1 /\ run.writes <= 1)

\* C12 witness: a run without valid message has returned
C12WitnessNoValid ==
  /\ run.active /\ run.pc = "return" /\ run.valid = <<>> /\ run.writes = 1
  /\ run.feed_messages # <<>>

TypeOK ==
  /\ food_state.remaining_grams >= -1
  /\ Len(history) <= Max(MaxEvents, MaxReadings)
====
